---- MODULE Spec2Model ----
(***************************************************************************)
(* Crawl orchestrators of IterLoop/kbcursor.                               *)
(*                                                                         *)
(* Two revisions of MultiCrawler work on the same raw_content collection:  *)
(*   - scripts/crawl.py: sequential crawl_url, which consults should_crawl,*)
(*     walks the free crawlers, then Apify, and stores through             *)
(*     MongoValidator.prepare_for_mongodb (specification SpecC);           *)
(*   - scripts/crawlers/multi_crawler.py: crawl_urls, which filters a      *)
(*     batch with should_crawl, submits crawl_url to a thread pool and     *)
(*     stores the results on the calling thread, with the url_tracking     *)
(*     collection as ledger (specification SpecM).                         *)
(***************************************************************************)
EXTENDS Integers, Sequences, FiniteSets, TLC

VARIABLES
    t_pc,               \* pool threads of crawl_urls: a batch has been submitted
    t_tasks,            \* pool threads of crawl_urls: the submitted crawl_url calls
    b_avail,            \* BrowserPool.available: browsers in the queue
    b_worker,           \* BrowserPool: where each calling thread is
    b_cpc,              \* BrowserPool.cleanup: position
    b_quit,             \* BrowserPool: browsers that cleanup has quit
    v_doc,              \* MongoValidator: the types of the document handed in
    v_check,            \* validate_schema of the sanitize_data of v_doc
    v_prep,             \* how prepare_for_mongodb(v_doc) ended
    q_samedb,           \* MONGODB_DB_NAME1 and MONGODB_DB_NAME2 name one database
    processed_content,  \* processed_content of MONGODB_DB_NAME2: documents per url
    q_run,              \* process_unprocessed_content: each run's position and locals
    scraped_urls,       \* Database.scraped_urls: records per url
    a_call,             \* Database.add_url: each caller's position
    r_title,            \* is_content_relevant_to_title: the title argument
    r_text,             \* is_content_relevant_to_title: the text argument
    r_out,              \* is_content_relevant_to_title: what it returned
    proxy_list,         \* ProxyManager.proxy_list
    current_index,      \* ProxyManager.current_index
    failed_proxies,     \* ProxyManager.failed_proxies
    p_last,             \* ProxyManager: the last call and what it returned
    f_pc,               \* a crawler method under @retry: position
    f_variant,          \* which crawler method is running
    f_url,              \* its argument
    f_attempt,          \* tenacity's attempt_number
    f_requests,         \* HTTP requests sent by this invocation
    f_open,             \* browsers launched by this invocation and not closed
    f_ret,              \* how the invocation ended
    f_last,             \* what the last attempt met
    m_exc,              \* crawl_urls: the exception it ended with
    collection,         \* raw_content: a set of documents
    url_tracking,       \* url_tracking: url -> entry (unique index on url)
    clock,              \* datetime.now(UTC), in days
    c_pc,               \* crawl.py crawl_url: position
    c_url,              \* crawl.py crawl_url: argument
    c_idx,              \* crawl.py crawl_url: index into free_crawlers
    c_calls,            \* crawl.py crawl_url: crawler methods invoked so far
    c_last,             \* crawl.py crawl_url: the last crawler attempt
    c_first,            \* crawl.py crawl_url: first crawler whose result passed the checks
    c_ret,              \* crawl.py crawl_url: how the call ended
    c_sc,               \* crawl.py crawl_url: what should_crawl answered
    c_dbfail,           \* crawl.py crawl_url: MongoDB refused a write during the call
    m_pc,               \* multi_crawler.py crawl_urls: position of the calling thread
    m_sc,               \* crawl_urls: should_crawl's answer for each search result
    futures,            \* crawl_urls: the submitted crawl_url calls, by submission index
    m_list,             \* crawl_urls: indices still in the list "futures"
    m_snap,             \* crawl_urls: futures the running as_completed has yet to yield
    completed,          \* crawl_urls: the local "completed"
    successful_crawls,  \* MultiCrawler.successful_crawls
    failed_crawls,      \* MultiCrawler.failed_crawls
    m_called,           \* crawl_urls has been called
    m_stores            \* crawl_urls: the results written to raw_content, in order

c_vars == <<c_pc, c_url, c_idx, c_calls, c_last, c_first, c_ret, c_sc, c_dbfail>>
m_vars == <<m_pc, m_sc, futures, m_list, m_snap, completed,
            successful_crawls, failed_crawls, m_called, m_stores, m_exc>>
r_vars == <<r_title, r_text, r_out>>
p_vars == <<proxy_list, current_index, failed_proxies, p_last>>
f_vars == <<f_pc, f_variant, f_url, f_attempt, f_requests, f_open, f_ret, f_last>>
t_vars == <<t_pc, t_tasks>>
\* the other programs of the repository
b_vars == <<b_avail, b_worker, b_cpc, b_quit>>
v_vars == <<v_doc, v_check, v_prep>>
q_vars == <<q_samedb, processed_content, q_run>>
a_vars == <<scraped_urls, a_call>>
not_t_vars == <<b_vars, v_vars, q_vars, a_vars>>
not_b_vars == <<t_vars, v_vars, q_vars, a_vars>>
not_v_vars == <<t_vars, b_vars, q_vars, a_vars>>
not_q_vars == <<t_vars, b_vars, v_vars, a_vars>>
not_a_vars == <<t_vars, b_vars, v_vars, q_vars>>
y_vars == <<t_vars, b_vars, v_vars, q_vars, a_vars>>
\* the components the orchestrators call into
x_vars == <<r_vars, p_vars, f_vars, y_vars>>
db_vars == <<collection, url_tracking, clock>>
vars == <<collection, url_tracking, clock,
          c_pc, c_url, c_idx, c_calls, c_last, c_first, c_ret, c_sc, c_dbfail,
          m_pc, m_sc, futures, m_list, m_snap, completed,
          successful_crawls, failed_crawls, m_called, m_stores, m_exc, x_vars>>

(***************************************************************************)
(* Bounds and program constants                                            *)
(***************************************************************************)
MaxWeeks == 1
MinInterval == 7
MinContentLen == 100

NoTime == -1
NoDoc == [url |-> "NoDoc"]

\* URLs as urllib.parse.urlparse splits them
U1 == [scheme |-> "https", netloc |-> "a.org", path |-> "/1"]
U2 == [scheme |-> "https", netloc |-> "b.org", path |-> "/2"]
NoSchemeUrl == [scheme |-> "", netloc |-> "", path |-> "a.org/1"]
GoogleUrl == [scheme |-> "https", netloc |-> "google.com", path |-> "/search"]
GoodUrls == {U1, U2}
AllUrls == GoodUrls \cup {NoSchemeUrl, GoogleUrl}

\* urlparse + all([parsed.scheme, parsed.netloc])
IsValidUrlAlways(u) == TRUE
IsValidUrl(u) == u.scheme # "" /\ u.netloc # ""
\* 'google.com/search' in url
IsGoogleSearch(u) == u.netloc = "google.com" /\ u.path = "/search"

(***************************************************************************)
(* What a crawler call can produce: an exception, None, or a CrawlResult   *)
(* with a text length and a title (absent, or present and relevant or not  *)
(* to the text).  Crawlers return None for empty text, so lengths are > 0. *)
(***************************************************************************)
TextLens == {50, 100, 500}
TitleKinds == {"none", "rel", "irr"}
NoResult == [kind |-> "none"]
Raised == [kind |-> "raise"]
Results == [kind : {"result"}, len : TextLens, title : TitleKinds]
Outcomes == {NoResult, Raised} \cup Results

\* is_content_relevant_to_title applied to a result with a title
is_content_relevant_to_title(r) == r.title = "rel"

(***************************************************************************)
(* tools/mongo.py: MongoValidator over the types of a document's fields.   *)
(***************************************************************************)
CrawlMetaSchema ==
    [method |-> "str", crawl_time |-> "datetime", updated_at |-> "datetime",
     content_hash |-> "str", word_count |-> "int", status |-> "str",
     attempts |-> "int", last_success |-> "datetime",
     last_failure |-> "datetime", failure_reason |-> "str"]

TopSchema ==
    [url |-> "str", title |-> "str", text |-> "str", method |-> "str",
     crawl_time |-> "datetime", updated_at |-> "datetime",
     word_count |-> "int", status |-> "str", content_hash |-> "str"]

TimeTag(t) == IF t = NoTime THEN "none" ELSE "datetime"

validate_type(value, expected) ==
    IF expected = "datetime" THEN value \in {"datetime", "str"}
    ELSE value = expected

\* one level of validate_schema: the keys that fail
BadKeys(data, schema) ==
    {k \in DOMAIN schema : data[k] = "missing" \/ ~validate_type(data[k], schema[k])}

\* errors.append(... expected_type.__name__) raises for the "datetime" schema
\* entries, which are strings
RaisingKeys(data, schema) ==
    {k \in BadKeys(data, schema) : data[k] # "missing" /\ schema[k] = "datetime"}

validate_schema(data) ==
    IF RaisingKeys(data.top, TopSchema) # {}
       \/ RaisingKeys(data.crawl_meta, CrawlMetaSchema) # {}
    THEN "raise"
    ELSE IF BadKeys(data.top, TopSchema) # {}
            \/ BadKeys(data.crawl_meta, CrawlMetaSchema) # {}
            \/ data.source_meta # "dict"
         THEN "errors"
         ELSE "ok"

\* sanitize_data walks the top level of the schema only; the nested
\* "metadata" entry matches none of its branches and is copied as it is
SanitizeTag(value, expected) ==
    IF value \in {"none", "missing"} THEN expected
    ELSE IF expected \in {"str", "int"} THEN expected
    ELSE IF expected = "datetime" /\ value = "str" THEN "datetime"
    ELSE value

sanitize_data(data) ==
    [top |-> [k \in DOMAIN TopSchema |-> SanitizeTag(data.top[k], TopSchema[k])],
     source_meta |-> data.source_meta,
     crawl_meta |-> data.crawl_meta]

\* TRUE when prepare_for_mongodb returns a document, FALSE when it raises
prepare_for_mongodb_lenient(data) == TRUE
prepare_for_mongodb(data) ==
    LET v1 == validate_schema(data) IN
    IF v1 = "ok" THEN TRUE
    ELSE IF v1 = "raise" THEN FALSE
    ELSE validate_schema(sanitize_data(data)) = "ok"

ValidTop == [k \in DOMAIN TopSchema |-> TopSchema[k]]

(***************************************************************************)
(* raw_content documents.  Fields a writer did not set are "absent"/NoTime.*)
(***************************************************************************)
FindOne(coll, u) ==
    IF \E d \in coll : d.url = u THEN CHOOSE d \in coll : d.url = u ELSE NoDoc

\* a document with none of the modelled fields set but the key
BlankDoc(u) ==
    [url |-> u, title |-> "absent", len |-> 0, crawl_time |-> NoTime,
     method |-> "absent", status |-> "absent",
     last_success |-> NoTime, last_failure |-> NoTime,
     processing_status |-> "absent", content_hash |-> "absent"]

\* {"$set": fields} applied to a document
SetFields(doc, fields) ==
    [k \in DOMAIN doc |-> IF k \in DOMAIN fields THEN fields[k] ELSE doc[k]]

\* update_one({"url": u}, {"$set": fields}, upsert=True)
UpsertAlwaysInsert(coll, u, fields) == coll \cup {SetFields(BlankDoc(u), fields)}
Upsert(coll, u, fields) ==
    IF FindOne(coll, u) = NoDoc THEN coll \cup {SetFields(BlankDoc(u), fields)}
    ELSE (coll \ {FindOne(coll, u)}) \cup {SetFields(FindOne(coll, u), fields)}

(***************************************************************************)
(* scripts/crawl.py                                                        *)
(***************************************************************************)
FreeCrawlers == <<"static", "javascript", "selenium", "scrapy">>

\* _check_last_modified: None on a failed probe or when no header is there
ProbeKinds == {"fail", "noheader", "unchanged", "changed"}
ShouldCrawlErrors == {"none", "lookup", "timestamp"}

\* should_crawl(url): [crawl, doc]
should_crawl_c_probe_unchanged(coll, u, now, err, probe) ==
    LET existing_doc == FindOne(coll, u) IN
    IF err = "lookup" THEN [crawl |-> TRUE, doc |-> NoDoc]
    ELSE IF existing_doc = NoDoc THEN [crawl |-> TRUE, doc |-> NoDoc]
    ELSE IF err = "timestamp" \/ existing_doc.crawl_time = NoTime
         THEN [crawl |-> TRUE, doc |-> NoDoc]
    ELSE IF now - existing_doc.crawl_time < MinInterval
         THEN [crawl |-> FALSE, doc |-> existing_doc]
    ELSE IF probe \in {"unchanged", "fail"} THEN [crawl |-> FALSE, doc |-> existing_doc]
    ELSE [crawl |-> TRUE, doc |-> NoDoc]
should_crawl_c(coll, u, now, err, probe) ==
    LET existing_doc == FindOne(coll, u) IN
    IF err = "lookup" THEN [crawl |-> TRUE, doc |-> NoDoc]
    ELSE IF existing_doc = NoDoc THEN [crawl |-> TRUE, doc |-> NoDoc]
    ELSE IF err = "timestamp" \/ existing_doc.crawl_time = NoTime
         THEN [crawl |-> TRUE, doc |-> NoDoc]
    ELSE IF now - existing_doc.crawl_time < MinInterval
         THEN [crawl |-> FALSE, doc |-> existing_doc]
    ELSE IF probe = "unchanged" THEN [crawl |-> FALSE, doc |-> existing_doc]
    ELSE [crawl |-> TRUE, doc |-> NoDoc]

\* should_crawl gets as far as calling _check_last_modified
Probes(coll, u, now, err) ==
    LET existing_doc == FindOne(coll, u) IN
    /\ err = "none"
    /\ existing_doc # NoDoc
    /\ existing_doc.crawl_time # NoTime
    /\ now - existing_doc.crawl_time >= MinInterval

\* the types of the document _store_result builds
StoreTypes(existing_doc) ==
    [top |-> ValidTop,
     source_meta |-> "dict",
     crawl_meta |->
        [method |-> "str", crawl_time |-> "datetime", updated_at |-> "datetime",
         content_hash |-> "str", word_count |-> "int", status |-> "str",
         attempts |-> "int", last_success |-> "datetime",
         last_failure |-> IF existing_doc = NoDoc THEN "none"
                          ELSE TimeTag(existing_doc.last_failure),
         failure_reason |-> "none"]]

\* the types of the document _record_crawl_failure builds
FailureTypes(existing_doc) ==
    [top |-> ValidTop,
     source_meta |-> "dict",
     crawl_meta |->
        [method |-> "str", crawl_time |-> "datetime", updated_at |-> "datetime",
         content_hash |-> "none", word_count |-> "int", status |-> "str",
         attempts |-> "int",
         last_success |-> IF existing_doc = NoDoc THEN "none"
                          ELSE TimeTag(existing_doc.last_success),
         last_failure |-> "datetime",
         failure_reason |-> "str"]]

\* _store_result(result): [ok, coll]; ok = FALSE when it raises
store_result_c(coll, u, r, method, now, dbfail) ==
    LET existing_doc == FindOne(coll, u)
        document == [url |-> u, title |-> r.title, len |-> r.len,
                     crawl_time |-> now, method |-> method,
                     status |-> "success", content_hash |-> "md5",
                     last_success |-> now,
                     last_failure |-> IF existing_doc = NoDoc THEN NoTime
                                      ELSE existing_doc.last_failure]
    IN IF dbfail \/ ~prepare_for_mongodb(StoreTypes(existing_doc))
       THEN [ok |-> FALSE, coll |-> coll]
       ELSE [ok |-> TRUE, coll |-> Upsert(coll, u, document)]

\* _record_crawl_failure(url): [ok, coll]; ok = FALSE when it raises
record_crawl_failure_c(coll, u, now, dbfail) ==
    LET existing_doc == FindOne(coll, u)
        tracking_data == [url |-> u, title |-> "none", len |-> 0,
                          crawl_time |-> now, method |-> "failed",
                          status |-> "failed", content_hash |-> "",
                          last_success |-> IF existing_doc = NoDoc THEN NoTime
                                           ELSE existing_doc.last_success,
                          last_failure |-> now]
    IN IF dbfail \/ ~prepare_for_mongodb(FailureTypes(existing_doc))
       THEN [ok |-> FALSE, coll |-> coll]
       ELSE [ok |-> TRUE, coll |-> Upsert(coll, u, tracking_data)]

\* a document as multi_crawler.py's _store_result leaves it in raw_content
SeedDoc(u) ==
    [url |-> u, title |-> "rel", len |-> 500, crawl_time |-> 0,
     method |-> "javascript", status |-> "absent",
     last_success |-> NoTime, last_failure |-> NoTime,
     processing_status |-> "absent", content_hash |-> "absent"]

NoAttempt == [key |-> "none", out |-> NoResult, lenok |-> FALSE,
              accepted |-> FALSE, stored |-> FALSE]
NoShouldCrawl == [called |-> FALSE, err |-> "none", probe |-> "noheader",
                  probed |-> FALSE, crawl |-> TRUE, doc |-> NoDoc,
                  pre |-> NoDoc]

CIdle ==
    /\ c_pc = "idle" /\ c_url = NoSchemeUrl /\ c_idx = 0 /\ c_calls = <<>>
    /\ c_last = NoAttempt /\ c_first = "none" /\ c_ret = "pending"
    /\ c_sc = NoShouldCrawl /\ c_dbfail = FALSE

\* crawl_url(url), up to the crawler loop: validation, should_crawl, the
\* Google check
CStart(u, err, probe) ==
    /\ c_pc = "idle"
    /\ c_url' = u
    /\ c_calls' = <<>>
    /\ c_last' = NoAttempt
    /\ c_first' = "none"
    /\ c_idx' = 1
    /\ c_dbfail' = FALSE
    /\ IF ~IsValidUrl(u)
       THEN /\ c_pc' = "returned" /\ c_ret' = "none" /\ c_sc' = NoShouldCrawl
       ELSE LET sc == should_crawl_c(collection, u, clock, err, probe)
                probed == Probes(collection, u, clock, err)
            IN
            /\ probe # "noheader" => probed
            /\ c_sc' = [called |-> TRUE, err |-> err, probe |-> probe,
                        probed |-> probed, crawl |-> sc.crawl,
                        doc |-> sc.doc, pre |-> FindOne(collection, u)]
            /\ IF ~sc.crawl /\ sc.doc # NoDoc
               THEN c_pc' = "returned" /\ c_ret' = "cached"
               ELSE IF IsGoogleSearch(u)
                    THEN c_pc' = "returned" /\ c_ret' = "none"
                    ELSE c_pc' = "free" /\ c_ret' = "pending"
    /\ UNCHANGED <<x_vars, collection, url_tracking, clock, m_vars>>

\* _scrapy_crawl: parse() builds an item keyed by response.url, but
\* collect_result is connected to nothing, "results" stays empty and the
\* method returns None (as it does from its except clause)
ScrapyOutcomes == {NoResult}

\* one turn of "for crawler_name, crawler_method, method_key in free_crawlers"
CTryFree_no_filter(out, dbfail) ==
    /\ c_pc = "free"
    /\ LET key == FreeCrawlers[c_idx]
           lenok == out.kind = "result" /\ out.len > MinContentLen
           accepted == lenok /\ out.title # "none"
           st == IF accepted
                 THEN store_result_c(collection, c_url, out, key, clock, dbfail)
                 ELSE [ok |-> FALSE, coll |-> collection]
       IN /\ dbfail => accepted
          /\ key = "scrapy" => out \in ScrapyOutcomes
          /\ c_calls' = Append(c_calls, key)
          /\ c_last' = [key |-> key, out |-> out, lenok |-> lenok,
                        accepted |-> accepted, stored |-> st.ok]
          /\ c_first' = IF c_first = "none" /\ accepted THEN key ELSE c_first
          /\ c_dbfail' = (c_dbfail \/ dbfail)
          /\ collection' = st.coll
          /\ IF st.ok
             THEN c_pc' = "returned" /\ c_ret' = "result" /\ c_idx' = c_idx
             ELSE IF c_idx < Len(FreeCrawlers)
                  THEN c_pc' = "free" /\ c_idx' = c_idx + 1 /\ c_ret' = c_ret
                  ELSE c_pc' = "apify" /\ c_idx' = c_idx /\ c_ret' = c_ret
    /\ UNCHANGED <<x_vars, url_tracking, clock, c_url, c_sc, m_vars>>
CTryFree(out, dbfail) ==
    /\ c_pc = "free"
    /\ LET key == FreeCrawlers[c_idx]
           lenok == out.kind = "result" /\ out.len > MinContentLen
           accepted == lenok /\ out.title # "none" /\ is_content_relevant_to_title(out)
           st == IF accepted
                 THEN store_result_c(collection, c_url, out, key, clock, dbfail)
                 ELSE [ok |-> FALSE, coll |-> collection]
       IN /\ dbfail => accepted
          /\ key = "scrapy" => out \in ScrapyOutcomes
          /\ c_calls' = Append(c_calls, key)
          /\ c_last' = [key |-> key, out |-> out, lenok |-> lenok,
                        accepted |-> accepted, stored |-> st.ok]
          /\ c_first' = IF c_first = "none" /\ accepted THEN key ELSE c_first
          /\ c_dbfail' = (c_dbfail \/ dbfail)
          /\ collection' = st.coll
          /\ IF st.ok
             THEN c_pc' = "returned" /\ c_ret' = "result" /\ c_idx' = c_idx
             ELSE IF c_idx < Len(FreeCrawlers)
                  THEN c_pc' = "free" /\ c_idx' = c_idx + 1 /\ c_ret' = c_ret
                  ELSE c_pc' = "apify" /\ c_idx' = c_idx /\ c_ret' = c_ret
    /\ UNCHANGED <<x_vars, url_tracking, clock, c_url, c_sc, m_vars>>

\* the Apify attempt and, when it yields nothing that gets stored,
\* _record_crawl_failure(url) and "return None"
CTryApify(out, dbfail, dbfail2) ==
    /\ c_pc = "apify"
    /\ LET lenok == out.kind = "result"
           accepted == lenok /\ (out.title = "none" \/ is_content_relevant_to_title(out))
           st == IF accepted
                 THEN store_result_c(collection, c_url, out, "apify", clock, dbfail)
                 ELSE [ok |-> FALSE, coll |-> collection]
           rf == record_crawl_failure_c(collection, c_url, clock, dbfail2)
       IN /\ dbfail => accepted
          /\ dbfail2 => ~st.ok
          /\ c_calls' = Append(c_calls, "apify")
          /\ c_last' = [key |-> "apify", out |-> out, lenok |-> lenok,
                        accepted |-> accepted, stored |-> st.ok]
          /\ c_first' = IF c_first = "none" /\ accepted THEN "apify" ELSE c_first
          /\ c_dbfail' = (c_dbfail \/ dbfail \/ dbfail2)
          /\ c_pc' = "returned"
          /\ IF st.ok
             THEN collection' = st.coll /\ c_ret' = "result"
             ELSE /\ collection' = rf.coll
                  /\ c_ret' = IF rf.ok THEN "none" ELSE "raise"
    /\ UNCHANGED <<x_vars, url_tracking, clock, c_url, c_idx, c_sc, m_vars>>

\* the caller takes the outcome; the next call can start
CReturn ==
    /\ c_pc = "returned"
    /\ c_pc' = "idle" /\ c_url' = NoSchemeUrl /\ c_idx' = 0 /\ c_calls' = <<>>
    /\ c_last' = NoAttempt /\ c_first' = "none" /\ c_ret' = "pending"
    /\ c_sc' = NoShouldCrawl /\ c_dbfail' = FALSE
    /\ UNCHANGED <<x_vars, collection, url_tracking, clock, m_vars>>

(***************************************************************************)
(* scripts/crawlers/multi_crawler.py                                       *)
(***************************************************************************)
Crawlers == <<"selenium", "javascript", "apify">>

NoEntry == [success |-> "NoEntry"]
TrackErrors == {"none", "lookup", "timestamp", "store"}

\* find_one({"url": u, "crawl_time": t})
FindOneAt(coll, u, t) ==
    IF \E d \in coll : d.url = u /\ d.crawl_time = t
    THEN CHOOSE d \in coll : d.url = u /\ d.crawl_time = t
    ELSE NoDoc

\* should_crawl(url): [crawl, doc]
should_crawl(tracking, coll, u, now, err) ==
    LET tracking_info == tracking[u] IN
    IF err = "lookup" THEN [crawl |-> TRUE, doc |-> NoDoc]
    ELSE IF tracking_info = NoEntry THEN [crawl |-> TRUE, doc |-> NoDoc]
    ELSE IF err = "timestamp" \/ tracking_info.last_crawl_date = NoTime
         THEN [crawl |-> TRUE, doc |-> NoDoc]
    ELSE IF now - tracking_info.last_crawl_date < MinInterval
         THEN IF err = "store" THEN [crawl |-> TRUE, doc |-> NoDoc]
              ELSE [crawl |-> FALSE,
                    doc |-> FindOneAt(coll, u, tracking_info.last_crawl_date)]
    ELSE [crawl |-> TRUE, doc |-> NoDoc]

\* the ledger has a last successful crawl of u less than MinInterval ago
RecentlyCrawled(tracking, u, now) ==
    /\ tracking[u] # NoEntry
    /\ tracking[u].last_crawl_date # NoTime
    /\ now - tracking[u].last_crawl_date < MinInterval

BlankEntry ==
    [last_crawl_date |-> NoTime, last_crawl_method |-> "absent",
     success |-> FALSE, last_attempt_date |-> NoTime]

\* url_tracking.update_one({"url": u}, {"$set": fields}, upsert=True)
UpsertEntry(tracking, u, fields) ==
    [tracking EXCEPT ![u] =
        SetFields(IF tracking[u] = NoEntry THEN BlankEntry ELSE tracking[u], fields)]

\* _store_result(result): [ok, coll, tracking]; ok = FALSE when it raises
StoreFails == {"none", "collection", "tracking"}
_store_result(coll, tracking, r, fail) ==
    LET document == [title |-> r.title, len |-> r.len,
                     crawl_time |-> r.crawl_time, method |-> r.method]
        coll2 == Upsert(coll, r.url, document)
        tracking2 == UpsertEntry(tracking, r.url,
                        [last_crawl_date |-> r.crawl_time,
                         last_crawl_method |-> r.method,
                         success |-> TRUE])
    IN IF fail = "collection" THEN [ok |-> FALSE, coll |-> coll, tracking |-> tracking]
       ELSE IF fail = "tracking" THEN [ok |-> FALSE, coll |-> coll2, tracking |-> tracking]
       ELSE [ok |-> TRUE, coll |-> coll2, tracking |-> tracking2]

\* _record_crawl_failure(url): the exception of a failed write is swallowed
_record_crawl_failure_replace(tracking, u, now, fail) ==
    IF fail THEN tracking
    ELSE [tracking EXCEPT ![u] =
            SetFields(BlankEntry, [last_attempt_date |-> now, success |-> FALSE])]
_record_crawl_failure(tracking, u, now, fail) ==
    IF fail THEN tracking
    ELSE UpsertEntry(tracking, u, [last_attempt_date |-> now, success |-> FALSE])

\* the search results handed to crawl_urls: one URL, the same URL twice,
\* two URLs, a URL without scheme next to a good one
Batches == {<<U1>>, <<U1, U1>>, <<U1, U2>>, <<NoSchemeUrl, U1>>}

\* search results that should_crawl lets through, in order
RECURSIVE urls_to_crawl(_, _)
urls_to_crawl(batch, sc) ==
    IF batch = <<>> THEN <<>>
    ELSE LET rest == urls_to_crawl(Tail(batch), Tail(sc)) IN
         IF Head(sc).crawl THEN <<Head(batch)>> \o rest ELSE rest

\* the "while completed < len(futures)" test, taken when a pass over
\* as_completed has ended (exhausted or timed out)
WhileTest(done, list) ==
    IF done < Cardinality(list) THEN [pc |-> "loop", snap |-> list]
    ELSE [pc |-> "returned", snap |-> {}]

\* crawl_urls(search_results, search_term) up to the first as_completed:
\* the should_crawl filter and the submission of every URL that passes it
MStart(batch, errs) ==
    /\ m_pc = "idle"
    /\ ~m_called
    /\ DOMAIN errs = DOMAIN batch
    /\ \A i \in DOMAIN batch :
          errs[i] # "none" => RecentlyCrawled(url_tracking, batch[i], clock)
    /\ LET sc == [i \in DOMAIN batch |->
                    should_crawl(url_tracking, collection, batch[i], clock, errs[i])]
           todo == urls_to_crawl(batch, sc)
       IN /\ m_sc' = [i \in DOMAIN batch |->
                        [url |-> batch[i], err |-> errs[i], crawl |-> sc[i].crawl,
                         doc |-> sc[i].doc,
                         recent |-> RecentlyCrawled(url_tracking, batch[i], clock)]]
          /\ futures' = [i \in DOMAIN todo |->
                           [url |-> todo[i], state |-> "running",
                            calls |-> <<>>, result |-> NoResult]]
          /\ m_list' = DOMAIN todo
          /\ completed' = 0
          /\ m_called' = TRUE
          /\ IF todo = <<>>
             THEN m_pc' = "returned" /\ m_snap' = {}
             ELSE m_pc' = "loop" /\ m_snap' = DOMAIN todo
    /\ m_stores' = <<>>
    /\ m_exc' = "none"
    /\ UNCHANGED <<x_vars, db_vars, c_vars, successful_crawls, failed_crawls>>

\* the crawlers crawl_url gets an acceptable result from, given what each
\* would produce
\* the url of the CrawlResult a strategy builds for the URL it was given
result_url_final(method, u) == IF method = "javascript" THEN U2 ELSE u
result_url(method, u) == u

Acceptable(outs) ==
    {j \in DOMAIN outs : outs[j].kind = "result" /\ outs[j].len > MinContentLen}

Min(S) == CHOOSE x \in S : \A y \in S : x <= y

\* a pool thread runs crawl_url(url): the checks of the URL, then
\* "for crawler in self.crawlers" up to the first acceptable result; when
\* there is none, _record_crawl_failure(url) and "return None"
MCrawlUrl(i, outs, fail) ==
    /\ i \in DOMAIN futures
    /\ futures[i].state = "running"
    /\ LET f == futures[i]
           u == f.url
           acc == Acceptable(outs)
       IN IF ~IsValidUrl(u) \/ IsGoogleSearch(u)
          THEN /\ \A j \in DOMAIN outs : outs[j] = NoResult
               /\ ~fail
               /\ futures' = [futures EXCEPT ![i].state = "done"]
               /\ UNCHANGED url_tracking
          ELSE IF acc # {}
          THEN LET k == Min(acc) IN
               /\ \A j \in DOMAIN outs : j > k => outs[j] = NoResult
               /\ ~fail
               /\ futures' = [futures EXCEPT ![i] =
                     [f EXCEPT !.state = "done",
                               !.calls = SubSeq(Crawlers, 1, k),
                               !.result = [kind |-> "result",
                                           url |-> result_url(Crawlers[k], u),
                                           len |-> outs[k].len,
                                           title |-> outs[k].title,
                                           crawl_time |-> clock + 1,
                                           method |-> Crawlers[k]]]]
               /\ UNCHANGED url_tracking
          ELSE /\ futures' = [futures EXCEPT ![i] =
                     [f EXCEPT !.state = "done", !.calls = Crawlers]]
               /\ url_tracking' = _record_crawl_failure(url_tracking, u, clock + 1, fail)
    /\ clock' = clock + 1
    /\ UNCHANGED <<x_vars, collection, c_vars, m_pc, m_sc, m_list, m_snap,
                   completed, successful_crawls, failed_crawls, m_called, m_stores, m_exc>>

\* the body of "for future in as_completed(futures, timeout=1)" for one
\* finished future, with the "while" test when that pass is exhausted
MYield(i, fail) ==
    /\ m_pc = "loop"
    /\ i \in m_snap
    /\ futures[i].state = "done"
    /\ LET r == futures[i].result
           st == IF r.kind = "result"
                 THEN _store_result(collection, url_tracking, r, fail)
                 ELSE [ok |-> FALSE, coll |-> collection, tracking |-> url_tracking]
           wt == WhileTest(completed + 1, m_list \ {i})
       IN /\ (fail # "none") => r.kind = "result"
          /\ collection' = st.coll
          /\ url_tracking' = st.tracking
          /\ m_stores' = IF r.kind = "result" /\ fail # "collection"
                         THEN Append(m_stores, r) ELSE m_stores
          /\ successful_crawls' = IF st.ok THEN successful_crawls + 1
                                  ELSE successful_crawls
          /\ failed_crawls' = IF st.ok THEN failed_crawls ELSE failed_crawls + 1
          /\ completed' = completed + 1
          /\ m_list' = m_list \ {i}
          /\ IF m_snap \ {i} = {}
             THEN m_pc' = wt.pc /\ m_snap' = wt.snap
             ELSE m_pc' = "loop" /\ m_snap' = m_snap \ {i}
    /\ UNCHANGED <<x_vars, clock, c_vars, m_sc, futures, m_called, m_exc>>

\* as_completed raises TimeoutError: a second has passed and a future of
\* this pass is still running; "continue" goes back to the "while" test
MTimeout ==
    /\ m_pc = "loop"
    /\ \E i \in m_snap : futures[i].state = "running"
    /\ LET wt == WhileTest(completed, m_list)
       IN m_pc' = wt.pc /\ m_snap' = wt.snap
    /\ UNCHANGED <<x_vars, db_vars, c_vars, m_sc, futures, m_list, completed,
                   successful_crawls, failed_crawls, m_called, m_stores, m_exc>>

\* crawl_urls has returned to its caller, and the pool threads it left
\* running have finished
MReturn ==
    /\ m_pc = "returned"
    /\ \A i \in DOMAIN futures : futures[i].state = "done"
    /\ m_pc' = "idle" /\ m_sc' = <<>> /\ futures' = <<>> /\ m_list' = {}
    /\ m_snap' = {} /\ completed' = 0 /\ m_stores' = <<>> /\ m_exc' = "none"
    /\ UNCHANGED <<x_vars, db_vars, c_vars, successful_crawls, failed_crawls, m_called>>

\* KeyboardInterrupt while crawl_urls is still in its should_crawl loop:
\* the handler's "for future in futures" meets a name not yet bound
MInterruptFilter ==
    /\ m_pc = "idle"
    /\ ~m_called
    /\ m_called' = TRUE
    /\ m_pc' = "returned"
    /\ m_exc' = "UnboundLocalError"
    /\ UNCHANGED <<x_vars, db_vars, c_vars, m_sc, futures, m_list, m_snap,
                   completed, successful_crawls, failed_crawls, m_stores>>

\* KeyboardInterrupt in the as_completed loop: cancel() on every future
\* left in the list (none of them is still waiting for a thread), then
\* __del__, whose executor.shutdown(wait=True) waits for the running ones
MInterrupt ==
    /\ m_pc = "loop"
    /\ m_pc' = "shutdown"
    /\ m_exc' = "KeyboardInterrupt"
    /\ UNCHANGED <<x_vars, db_vars, c_vars, m_sc, futures, m_list, m_snap,
                   completed, successful_crawls, failed_crawls, m_called,
                   m_stores>>

\* shutdown has returned; the handler re-raises
MShutdown ==
    /\ m_pc = "shutdown"
    /\ \A i \in DOMAIN futures : futures[i].state = "done"
    /\ m_pc' = "returned"
    /\ UNCHANGED <<x_vars, db_vars, c_vars, m_sc, futures, m_list, m_snap,
                   completed, successful_crawls, failed_crawls, m_called,
                   m_stores, m_exc>>

\* scripts/api/main.py rescrape_url, main.py reprocess_content: a request
\* handler sets processing_status on a stored document
MarkQueued(u) ==
    /\ m_pc = "idle"
    /\ FindOne(collection, u) # NoDoc
    /\ FindOne(collection, u).processing_status = "absent"
    /\ collection' = Upsert(collection, u, [processing_status |-> "queued"])
    /\ UNCHANGED <<x_vars, url_tracking, clock, c_vars, m_vars, y_vars>>

\* min_interval passes between two calls
Tick ==
    /\ clock < MaxWeeks * MinInterval
    /\ c_pc = "idle" /\ m_pc = "idle"
    /\ clock' = clock + MinInterval
    /\ UNCHANGED <<x_vars, collection, url_tracking, c_vars, m_vars, y_vars>>

(***************************************************************************)
(* scripts/crawl.py: is_content_relevant_to_title.  A string is the count  *)
(* of each term the vectorizer keeps from it (lower case, English stop     *)
(* words dropped); a non-empty string of stop words alone has all counts 0.*)
(* TfidfVectorizer is fitted on the two strings: idf is ln(3 / (1 + df)) + 1,*)
(* that is 1 for a term of both strings and 1.405 for a term of one; the   *)
(* weights below are 5 and 7 (ratio 1.4).  The rows are l2-normalised, so  *)
(* the product of the two rows is the cosine of the weighted counts.       *)
(***************************************************************************)
MaxCount == 2
Terms == {"t1", "t2", "t3"}
Docs == [Terms -> 0..MaxCount]
ZeroDoc == [t \in Terms |-> 0]

IdfBoth == 5
IdfOne == 7
\* similarity > 0.1
CodeThreshold == [num |-> 1, den |-> 10]

Vocabulary(title, text) == {t \in Terms : title[t] > 0 \/ text[t] > 0}
SharedTerms(title, text) == {t \in Terms : title[t] > 0 /\ text[t] > 0}
Idf(title, text, t) == IF t \in SharedTerms(title, text) THEN IdfBoth ELSE IdfOne

RECURSIVE SumOver(_, _)
SumOver(f, S) ==
    IF S = {} THEN 0
    ELSE LET x == CHOOSE y \in S : TRUE IN f[x] + SumOver(f, S \ {x})

\* a row of tfidf_matrix before normalisation
TfIdf(doc, title, text) == [t \in Terms |-> doc[t] * Idf(title, text, t)]
Dot(a, b) == SumOver([t \in Terms |-> a[t] * b[t]], Terms)

\* cosine(a, b) > th.num / th.den, resp. >=, for rows with weights >= 0
CosineAbove(a, b, th) ==
    /\ Dot(a, a) > 0 /\ Dot(b, b) > 0
    /\ th.den * th.den * Dot(a, b) * Dot(a, b) > th.num * th.num * Dot(a, a) * Dot(b, b)
CosineAtLeast(a, b, th) ==
    /\ Dot(a, a) > 0 /\ Dot(b, b) > 0
    /\ th.den * th.den * Dot(a, b) * Dot(a, b) >= th.num * th.num * Dot(a, a) * Dot(b, b)

\* is_content_relevant_to_title(title, text) on two non-empty strings;
\* fit_transform raises ValueError on an empty vocabulary
tfidf_relevant(title, text) ==
    IF Vocabulary(title, text) = {} THEN TRUE
    ELSE CosineAbove(TfIdf(title, title, text), TfIdf(text, title, text),
                     CodeThreshold)

RIdle == r_title = ZeroDoc /\ r_text = ZeroDoc /\ r_out = "pending"

RCheck ==
    /\ r_out = "pending"
    /\ r_out' = IF tfidf_relevant(r_title, r_text) THEN "True" ELSE "False"
    /\ UNCHANGED <<r_title, r_text, db_vars, c_vars, m_vars, y_vars, p_vars, f_vars>>

(***************************************************************************)
(* scripts/utils/proxy_manager.py                                          *)
(***************************************************************************)
\* the proxies of the proxy file, in file order, as _load_proxies leaves them
ProxyFile == <<"p1", "p2", "p3">>
Proxies == {ProxyFile[i] : i \in DOMAIN ProxyFile}
\* FreeProxy(rand=True).get(): an exception, None or some public proxy
FreeProxyOutcomes == {"raise", "None"} \cup Proxies
\* the fallback stops adding proxies at this length
MaxProxies == 4

NoCall == [op |-> "none", ret |-> "None", up |-> {}, from |-> -1,
           was_failed |-> FALSE]
PIdle ==
    /\ proxy_list = <<>> /\ current_index = -1 /\ failed_proxies = {}
    /\ p_last = NoCall

\* get_next_proxy(): [ret, list, idx, failed].  up is the set of proxies
\* for which _test_proxy answers True during the call, free what FreeProxy
\* gives.  An empty proxy_list is reloaded from the same file.
get_next_proxy_no_skip(list, idx, failed, up, free) ==
    LET n == Len(list)
        At(k) == list[((idx + k) % n) + 1]
        Hits == {k \in 1..n : At(k) \in up}
    IN IF n = 0
       THEN [ret |-> "None", list |-> list, idx |-> idx, failed |-> failed]
       ELSE IF Hits # {}
       THEN [ret |-> At(Min(Hits)), list |-> list,
             idx |-> (idx + Min(Hits)) % n,
             failed |-> failed \cup {At(k) : k \in 1..(Min(Hits) - 1)}]
       ELSE LET failed2 == failed \cup {list[i] : i \in 1..n}
                idx2 == (idx + n) % n
            IN IF free \in Proxies /\ free \in up
               THEN [ret |-> free, list |-> Append(list, free),
                     idx |-> idx2, failed |-> failed2]
               ELSE [ret |-> "None", list |-> list,
                     idx |-> idx2, failed |-> failed2]
get_next_proxy(list, idx, failed, up, free) ==
    LET n == Len(list)
        At(k) == list[((idx + k) % n) + 1]
        Hits == {k \in 1..n : At(k) \notin failed /\ At(k) \in up}
    IN IF n = 0
       THEN [ret |-> "None", list |-> list, idx |-> idx, failed |-> failed]
       ELSE IF Hits # {}
       THEN [ret |-> At(Min(Hits)), list |-> list,
             idx |-> (idx + Min(Hits)) % n,
             failed |-> failed \cup {At(k) : k \in 1..(Min(Hits) - 1)}]
       ELSE LET failed2 == failed \cup {list[i] : i \in 1..n}
                idx2 == (idx + n) % n
            IN IF free \in Proxies /\ free \in up
               THEN [ret |-> free, list |-> Append(list, free),
                     idx |-> idx2, failed |-> failed2]
               ELSE [ret |-> "None", list |-> list,
                     idx |-> idx2, failed |-> failed2]

\* mark_proxy_failed(proxy): the new failed_proxies
mark_proxy_failed(list, failed, proxy) ==
    IF \E i \in DOMAIN list : list[i] = proxy THEN failed \cup {proxy}
    ELSE failed

\* a caller asks the manager for a proxy
GetNextProxy(up, free) ==
    LET r == get_next_proxy(proxy_list, current_index, failed_proxies, up, free)
    IN /\ Len(r.list) <= MaxProxies
       /\ proxy_list' = r.list
       /\ current_index' = r.idx
       /\ failed_proxies' = r.failed
       /\ p_last' = [op |-> "next", ret |-> r.ret, up |-> up,
                     from |-> current_index,
                     was_failed |-> r.ret \in failed_proxies]
       /\ UNCHANGED <<db_vars, c_vars, m_vars, y_vars, r_vars, f_vars>>

\* a caller reports a proxy as failed
MarkProxyFailed(proxy) ==
    /\ failed_proxies' = mark_proxy_failed(proxy_list, failed_proxies, proxy)
    /\ p_last' = [op |-> "mark", ret |-> proxy, up |-> {},
                  from |-> current_index, was_failed |-> FALSE]
    /\ UNCHANGED <<proxy_list, current_index, db_vars, c_vars, m_vars, y_vars,
                   r_vars, f_vars>>

(***************************************************************************)
(* The crawler methods under tenacity's @retry                             *)
(***************************************************************************)
FetchVariants == {"_static_crawl", "_js_crawl", "JSCrawler.crawl", "WebCrawler.js_crawl"}
JsVariants == FetchVariants \ {"_static_crawl"}

\* @retry(stop=stop_after_attempt(n)) of each method
StopAfterAttempt ==
    [v \in FetchVariants |-> IF v = "WebCrawler.js_crawl" THEN 3 ELSE 2]

\* what requests.get meets: a response (status, content type, whether the
\* page has text) or a requests exception
NoResponse == [status |-> "none", ctype |-> "none", text |-> "empty"]
StaticResponses ==
    [status : {"200"}, ctype : {"text/html", "application/pdf", "text/plain"},
     text : {"empty", "text"}]
    \cup [status : {"403", "429", "500", "timeout"}, ctype : {"none"},
          text : {"empty"}]
TransientStatuses == {"429", "500", "timeout"}

\* what a browser fetch meets: playwright or the launch fails, the
\* navigation raises, the page has no text, the page has text
JsOutcomes ==
    [status : {"launch_error", "goto_error", "page"}, ctype : {"none"},
     text : {"empty"}]
    \cup [status : {"page"}, ctype : {"none"}, text : {"text"}]

FIdle ==
    /\ f_pc = "idle" /\ f_variant = "none" /\ f_url = NoSchemeUrl
    /\ f_attempt = 0 /\ f_requests = 0 /\ f_open = 0
    /\ f_ret = "pending" /\ f_last = NoResponse

\* a caller invokes the decorated method
FStart(variant, u) ==
    /\ f_pc = "idle"
    /\ f_pc' = "running" /\ f_variant' = variant /\ f_url' = u
    /\ f_attempt' = 1 /\ f_requests' = 0 /\ f_open' = 0
    /\ f_ret' = "pending" /\ f_last' = NoResponse
    /\ UNCHANGED <<db_vars, c_vars, m_vars, y_vars, r_vars, p_vars>>

\* the body of _static_crawl for one response: "None", "result" or "raise"
static_crawl_body(resp) ==
    IF resp.status # "200" THEN "None"
    ELSE IF resp.ctype \in {"text/html", "application/pdf"} /\ resp.text = "text"
         THEN "result"
    ELSE "None"

\* tenacity around one attempt that ended with out: [pc, attempt, ret]
retry_call(variant, attempt, out) ==
    IF out # "raise" THEN [pc |-> "returned", attempt |-> attempt, ret |-> out]
    ELSE IF attempt >= StopAfterAttempt[variant]
         THEN [pc |-> "returned", attempt |-> attempt, ret |-> "RetryError"]
    ELSE [pc |-> "running", attempt |-> attempt + 1, ret |-> "pending"]

\* one attempt of _static_crawl under @retry
SRequest(resp) ==
    /\ f_pc = "running" /\ f_variant = "_static_crawl"
    /\ LET rc == retry_call(f_variant, f_attempt, static_crawl_body(resp))
       IN /\ f_pc' = rc.pc /\ f_attempt' = rc.attempt /\ f_ret' = rc.ret
          /\ f_requests' = f_requests + 1
          /\ f_last' = resp
    /\ UNCHANGED <<f_variant, f_url, f_open, db_vars, c_vars, m_vars, y_vars,
                   r_vars, p_vars>>

\* "finally: if browser: browser.close()": the browsers left open
js_finally_no_close(open) == open
js_finally(open) == 0

\* one attempt of a browser fetch under @retry.  close_raises: the
\* browser.close() of the finally clause raises, the browser being gone
\* already; only WebCrawler.js_crawl catches that.
JAttempt(out, close_raises, up, free) ==
    /\ f_pc = "running" /\ f_variant \in JsVariants
    /\ LET with_proxy == f_variant = "JSCrawler.crawl"
           np == IF with_proxy
                 THEN get_next_proxy(proxy_list, current_index, failed_proxies,
                                     up, free)
                 ELSE [ret |-> "None", list |-> proxy_list,
                       idx |-> current_index, failed |-> failed_proxies]
           launched == IF out.status = "launch_error" THEN 0 ELSE 1
           excepted == out.status \in {"launch_error", "goto_error"}
           body == IF excepted THEN "None"
                   ELSE IF out.text = "empty" /\ f_variant # "WebCrawler.js_crawl"
                        THEN "None"
                   ELSE "result"
           escapes == /\ close_raises /\ launched = 1
                      /\ f_variant # "WebCrawler.js_crawl"
           rc == retry_call(f_variant, f_attempt,
                            IF escapes THEN "raise" ELSE body)
       IN /\ ~with_proxy => (up = {} /\ free = "None")
          /\ close_raises => launched = 1
          /\ Len(np.list) <= MaxProxies
          /\ proxy_list' = np.list
          /\ current_index' = np.idx
          /\ failed_proxies' =
                IF with_proxy /\ excepted /\ np.ret # "None"
                THEN mark_proxy_failed(np.list, np.failed, np.ret)
                ELSE np.failed
          /\ p_last' =
                IF ~with_proxy THEN p_last
                ELSE IF excepted /\ np.ret # "None"
                THEN [op |-> "mark", ret |-> np.ret, up |-> {},
                      from |-> np.idx, was_failed |-> FALSE]
                ELSE [op |-> "next", ret |-> np.ret, up |-> up,
                      from |-> current_index,
                      was_failed |-> np.ret \in failed_proxies]
          /\ f_open' = js_finally(f_open + launched)
          /\ f_requests' = f_requests + launched
          /\ f_last' = out
          /\ f_pc' = rc.pc /\ f_attempt' = rc.attempt /\ f_ret' = rc.ret
    /\ UNCHANGED <<f_variant, f_url, db_vars, c_vars, m_vars, y_vars, r_vars>>

\* the caller takes the outcome
FReturn ==
    /\ f_pc = "returned"
    /\ f_pc' = "idle" /\ f_variant' = "none" /\ f_url' = NoSchemeUrl
    /\ f_attempt' = 0 /\ f_requests' = 0 /\ f_open' = 0
    /\ f_ret' = "pending" /\ f_last' = NoResponse
    /\ UNCHANGED <<db_vars, c_vars, m_vars, y_vars, r_vars, p_vars>>

core_vars == <<db_vars, c_vars, m_vars, r_vars, p_vars, f_vars>>

(***************************************************************************)
(* scripts/crawlers/multi_crawler.py: the pool threads.  crawl_urls        *)
(* submits one crawl_url call per search result that should_crawl lets     *)
(* through; ThreadPoolExecutor runs up to max_workers of them at a time,   *)
(* in submission order.  A task is "queued", then in the "attempt" of its  *)
(* idx-th crawler, then "done".                                            *)
(***************************************************************************)
MaxWorkers == 5

TIdle == t_pc = "idle" /\ t_tasks = <<>>

\* crawl_urls up to the as_completed loop: the filter and the submissions
TSubmit(batch) ==
    /\ t_pc = "idle"
    /\ LET sc == [i \in DOMAIN batch |->
                    should_crawl(url_tracking, collection, batch[i], clock, "none")]
           todo == urls_to_crawl(batch, sc)
       IN t_tasks' = [i \in DOMAIN todo |->
                        [url |-> todo[i], state |-> "queued", idx |-> 0,
                         ret |-> "pending"]]
    /\ t_pc' = "submitted"
    /\ UNCHANGED <<core_vars, not_t_vars>>

\* a free pool thread takes the oldest queued call: crawl_url checks the
\* URL and enters "for crawler in self.crawlers"
TBegin(i) ==
    /\ i \in DOMAIN t_tasks
    /\ t_tasks[i].state = "queued"
    /\ \A j \in 1..(i - 1) : t_tasks[j].state # "queued"
    /\ Cardinality({j \in DOMAIN t_tasks : t_tasks[j].state = "attempt"}) < MaxWorkers
    /\ LET u == t_tasks[i].url IN
       t_tasks' = [t_tasks EXCEPT ![i] =
                     IF ~IsValidUrl(u) \/ IsGoogleSearch(u)
                     THEN [@ EXCEPT !.state = "done", !.ret = "None"]
                     ELSE [@ EXCEPT !.state = "attempt", !.idx = 1]]
    /\ UNCHANGED <<t_pc, core_vars, not_t_vars>>

\* crawler.crawl(url) of the attempt in progress ends with out: the result
\* is returned, or the next crawler is tried, or, after the last one,
\* _record_crawl_failure(url) and "return None"
TAttemptEnds(i, out, fail) ==
    /\ i \in DOMAIN t_tasks
    /\ t_tasks[i].state = "attempt"
    /\ LET t == t_tasks[i] IN
       IF out.kind = "result" /\ out.len > MinContentLen
       THEN /\ ~fail
            /\ t_tasks' = [t_tasks EXCEPT ![i] =
                             [t EXCEPT !.state = "done", !.ret = Crawlers[t.idx]]]
            /\ UNCHANGED url_tracking
       ELSE IF t.idx < Len(Crawlers)
       THEN /\ ~fail
            /\ t_tasks' = [t_tasks EXCEPT ![i] = [t EXCEPT !.idx = t.idx + 1]]
            /\ UNCHANGED url_tracking
       ELSE /\ t_tasks' = [t_tasks EXCEPT ![i] =
                             [t EXCEPT !.state = "done", !.ret = "None"]]
            /\ url_tracking' = _record_crawl_failure(url_tracking, t.url, clock, fail)
    /\ UNCHANGED <<t_pc, collection, clock, c_vars, m_vars, r_vars, p_vars,
                   f_vars, not_t_vars>>

(***************************************************************************)
(* scripts/crawlers/base/browser_pool.py.  Browsers are interchangeable:   *)
(* the queue is the number of browsers in it.  A calling thread is "idle", *)
(* "waiting" inside get_browser's available.get(), or "has" a browser.     *)
(***************************************************************************)
\* size: int = 3
PoolSize == 3
Workers == {"w1", "w2", "w3"}

\* BrowserPool(size) as constructed
BConstructed ==
    /\ b_avail = PoolSize
    /\ b_worker = [w \in Workers |-> "idle"]
    /\ b_cpc = "idle"
    /\ b_quit = 0
\* no pool has been constructed
BIdle ==
    /\ b_avail = 0
    /\ b_worker = [w \in Workers |-> "idle"]
    /\ b_cpc = "idle"
    /\ b_quit = 0

\* a thread calls get_browser(): it is inside available.get()
BGetCall(w) ==
    /\ b_worker[w] = "idle"
    /\ b_worker' = [b_worker EXCEPT ![w] = "waiting"]
    /\ UNCHANGED <<b_avail, b_cpc, b_quit, core_vars, not_b_vars>>

\* available.get() returns a browser to a waiting thread
BGetReturn(w) ==
    /\ b_worker[w] = "waiting"
    /\ b_avail > 0
    /\ b_avail' = b_avail - 1
    /\ b_worker' = [b_worker EXCEPT ![w] = "has"]
    /\ UNCHANGED <<b_cpc, b_quit, core_vars, not_b_vars>>

\* return_browser(browser): put() on the unbounded queue does not raise
BReturn(w) ==
    /\ b_worker[w] = "has"
    /\ b_avail' = b_avail + 1
    /\ b_worker' = [b_worker EXCEPT ![w] = "idle"]
    /\ UNCHANGED <<b_cpc, b_quit, core_vars, not_b_vars>>

\* cleanup(): "with self.lock"; no other method takes the lock
BCleanupStart ==
    /\ b_cpc = "idle"
    /\ b_cpc' = "test"
    /\ UNCHANGED <<b_avail, b_worker, b_quit, core_vars, not_b_vars>>

\* "while not self.available.empty()"
BCleanupTest ==
    /\ b_cpc = "test"
    /\ b_cpc' = IF b_avail = 0 THEN "done" ELSE "get"
    /\ UNCHANGED <<b_avail, b_worker, b_quit, core_vars, not_b_vars>>

\* "browser = self.available.get(); browser.quit()"
BCleanupGet ==
    /\ b_cpc = "get"
    /\ b_avail > 0
    /\ b_avail' = b_avail - 1
    /\ b_quit' = b_quit + 1
    /\ b_cpc' = "test"
    /\ UNCHANGED <<b_worker, core_vars, not_b_vars>>

(***************************************************************************)
(* tools/mongo.py: MongoValidator on documents of any shape.  A document   *)
(* is the type tag of each field: "none" for a None value, "missing" for a *)
(* key that is not there.                                                  *)
(***************************************************************************)
TagSet == {"str", "int", "datetime", "none", "missing"}
ValidMeta == [k \in DOMAIN CrawlMetaSchema |-> CrawlMetaSchema[k]]
ValidDoc == [top |-> ValidTop, source_meta |-> "dict", crawl_meta |-> ValidMeta]

\* the documents handed to the validator: a valid document with any tag
\* in two top-level fields and in four fields of metadata.crawl_meta
VDocs ==
    {[top |-> [ValidTop EXCEPT !.title = a, !.crawl_time = b],
      source_meta |-> "dict",
      crawl_meta |-> [ValidMeta EXCEPT !.content_hash = c, !.last_success = d,
                                       !.last_failure = e, !.failure_reason = f]] :
        a \in TagSet, b \in TagSet, c \in TagSet, d \in TagSet,
        e \in TagSet, f \in TagSet}

\* the documents _store_result and _record_crawl_failure of crawl.py build
BuiltDocs ==
    {StoreTypes(e) : e \in {NoDoc, SeedDoc(U1)}}
    \cup {FailureTypes(e) : e \in {NoDoc, SeedDoc(U1)}}

VIdle == v_doc = ValidDoc /\ v_check = "pending" /\ v_prep = "pending"

\* validate_schema(sanitize_data(data, schema), schema)
VSanitize ==
    /\ v_check = "pending"
    /\ v_check' = validate_schema(sanitize_data(v_doc))
    /\ UNCHANGED <<v_doc, v_prep, core_vars, not_v_vars>>

\* prepare_for_mongodb(data, schema)
VPrepare ==
    /\ v_prep = "pending"
    /\ v_prep' = IF prepare_for_mongodb(v_doc) THEN "returned" ELSE "raised"
    /\ UNCHANGED <<v_doc, v_check, core_vars, not_v_vars>>

(***************************************************************************)
(* controllers/process_content.py with scripts/process_data.py.            *)
(* process_unprocessed_content reads raw_content and processed_content of  *)
(* the database MONGODB_DB_NAME1; process_with_assistant inserts into      *)
(* processed_content of MONGODB_DB_NAME2.  The crawlers write raw_content  *)
(* of MONGODB_DB_NAME2 only.  processed_content has no unique index.       *)
(***************************************************************************)
Runs == {"run1", "run2"}
UrlList == <<U1, U2>>

\* raw_content and processed_content as process_unprocessed_content sees them
RawOfDb1(samedb, coll) == IF samedb THEN coll ELSE {}
ProcessedOfDb1(samedb, processed, u) == IF samedb THEN processed[u] ELSE 0

NoRun == [pc |-> "idle", todo |-> <<>>, processed_count |-> 0, failed_count |-> 0]

QIdle ==
    /\ q_samedb = FALSE
    /\ processed_content = [u \in GoodUrls |-> 0]
    /\ q_run = [r \in Runs |-> NoRun]

\* unprocessed_docs: raw documents with text whose url is not among the
\* processed urls
unprocessed_docs(samedb, coll, processed) ==
    SelectSeq(UrlList,
              LAMBDA u : /\ \E d \in RawOfDb1(samedb, coll) : d.url = u /\ d.len > 0
                         /\ ProcessedOfDb1(samedb, processed, u) = 0)

\* where the "for" loop goes once the documents in rest are left
AfterDoc(rest) == IF rest = <<>> THEN "returned" ELSE "loop"

\* process_unprocessed_content up to its loop
QStart(r) ==
    /\ q_run[r].pc = "idle"
    /\ LET todo == unprocessed_docs(q_samedb, collection, processed_content)
       IN q_run' = [q_run EXCEPT ![r] =
                      [NoRun EXCEPT !.pc = AfterDoc(todo), !.todo = todo]]
    /\ UNCHANGED <<q_samedb, processed_content, core_vars, not_q_vars>>

\* "if processed_collection.find_one({"url": url})": skip, or go on to
\* process_with_assistant
QCheck(r) ==
    /\ q_run[r].pc = "loop"
    /\ LET u == Head(q_run[r].todo)
           rest == Tail(q_run[r].todo)
       IN q_run' = [q_run EXCEPT ![r] =
                      IF ProcessedOfDb1(q_samedb, processed_content, u) > 0
                      THEN [@ EXCEPT !.pc = AfterDoc(rest), !.todo = rest]
                      ELSE [@ EXCEPT !.pc = "processing"]]
    /\ UNCHANGED <<q_samedb, processed_content, core_vars, not_q_vars>>

\* insert_one(document) at the end of process_with_assistant
insert_one(processed, u) == [processed EXCEPT ![u] = @ + 1]

\* process_with_assistant(client, text, url) returns after its insert_one
\* (ok), or raises before it
QProcess(r, ok) ==
    /\ q_run[r].pc = "processing"
    /\ LET u == Head(q_run[r].todo)
           rest == Tail(q_run[r].todo)
       IN /\ processed_content' = IF ok THEN insert_one(processed_content, u)
                                  ELSE processed_content
          /\ q_run' = [q_run EXCEPT ![r] =
                         [@ EXCEPT !.pc = AfterDoc(rest), !.todo = rest,
                                   !.processed_count = IF ok THEN @ + 1 ELSE @,
                                   !.failed_count = IF ok THEN @ ELSE @ + 1]]
    /\ UNCHANGED <<q_samedb, core_vars, not_q_vars>>

(***************************************************************************)
(* database.py: Database.add_url.  The module imports MongoClient and os   *)
(* only, so building the record ("timestamp": datetime.now()) raises       *)
(* NameError before insert_one is called.                                  *)
(***************************************************************************)
Callers == {"a1", "a2", "a3"}
NoAddUrl == [pc |-> "idle", url |-> NoSchemeUrl, ret |-> "pending"]

AIdle ==
    /\ scraped_urls = [u \in GoodUrls |-> 0]
    /\ a_call = [c \in Callers |-> NoAddUrl]

\* url_exists(url)
url_exists(recs, u) == recs[u] > 0

\* the body of "if not self.url_exists(url)": [recs, ret]
add_url_insert_with_datetime(recs, u) ==
    [recs |-> [recs EXCEPT ![u] = @ + 1], ret |-> "None"]
add_url_insert(recs, u) ==
    [recs |-> recs, ret |-> "NameError"]

\* add_url(url) up to the test of url_exists
AAddUrl(c, u) ==
    /\ a_call[c].pc = "idle"
    /\ a_call' = [a_call EXCEPT ![c] =
                    IF url_exists(scraped_urls, u)
                    THEN [pc |-> "returned", url |-> u, ret |-> "None"]
                    ELSE [pc |-> "insert", url |-> u, ret |-> "pending"]]
    /\ UNCHANGED <<scraped_urls, core_vars, not_a_vars>>

\* add_url(url) after the test found no record
AInsert(c) ==
    /\ a_call[c].pc = "insert"
    /\ LET r == add_url_insert(scraped_urls, a_call[c].url)
       IN /\ scraped_urls' = r.recs
          /\ a_call' = [a_call EXCEPT ![c] = [@ EXCEPT !.pc = "returned", !.ret = r.ret]]
    /\ UNCHANGED <<core_vars, not_a_vars>>

\* the caller takes the outcome
AReturn(c) ==
    /\ a_call[c].pc = "returned"
    /\ a_call' = [a_call EXCEPT ![c] = NoAddUrl]
    /\ UNCHANGED <<scraped_urls, core_vars, not_a_vars>>

\* every component is as constructed
YIdle == TIdle /\ BIdle /\ VIdle /\ QIdle /\ AIdle

XIdle == RIdle /\ PIdle /\ FIdle /\ YIdle

(***************************************************************************)
(* Specifications                                                          *)
(***************************************************************************)
EmptyTracking == [u \in AllUrls |-> NoEntry]

MInit ==
    /\ m_pc = "idle" /\ m_sc = <<>> /\ futures = <<>> /\ m_list = {}
    /\ m_snap = {} /\ completed = 0
    /\ successful_crawls = 0 /\ failed_crawls = 0 /\ m_called = FALSE
    /\ m_stores = <<>> /\ m_exc = "none"

\* crawl.py starts on a raw_content that multi_crawler.py may have filled
InitC ==
    /\ collection \in SUBSET {SeedDoc(u) : u \in GoodUrls}
    /\ url_tracking = EmptyTracking
    /\ clock = 0
    /\ CIdle
    /\ MInit
    /\ XIdle

NextC ==
    \/ \E u \in AllUrls, err \in ShouldCrawlErrors, probe \in ProbeKinds :
          CStart(u, err, probe)
    \/ \E out \in Outcomes, dbfail \in BOOLEAN : CTryFree(out, dbfail)
    \/ \E out \in Outcomes, dbfail \in BOOLEAN, dbfail2 \in BOOLEAN :
          CTryApify(out, dbfail, dbfail2)
    \/ CReturn
    \/ Tick

SpecC == InitC /\ [][NextC]_vars

\* what earlier calls of crawl_urls can have left for a URL: nothing, a
\* stored result, a recorded failure, a stored result and a later failure
SeedEntries ==
    {NoEntry,
     [last_crawl_date |-> 0, last_crawl_method |-> "javascript",
      success |-> TRUE, last_attempt_date |-> NoTime],
     [last_crawl_date |-> NoTime, last_crawl_method |-> "absent",
      success |-> FALSE, last_attempt_date |-> 0],
     [last_crawl_date |-> 0, last_crawl_method |-> "javascript",
      success |-> FALSE, last_attempt_date |-> 0]}

InitM ==
    /\ \E e \in SeedEntries :
          /\ url_tracking = [EmptyTracking EXCEPT ![U1] = e]
          /\ collection = IF e # NoEntry /\ e.last_crawl_date # NoTime
                          THEN {SeedDoc(U1)} ELSE {}
    /\ clock = 0
    /\ CIdle
    /\ MInit
    /\ XIdle

\* multi_crawler.py does not look at the title
MOutcomes == {NoResult, Raised} \cup {r \in Results : r.title = "rel"}

NextM ==
    \/ \E batch \in Batches : \E errs \in [DOMAIN batch -> TrackErrors] :
          MStart(batch, errs)
    \/ \E i \in DOMAIN futures, fail \in BOOLEAN :
          \E outs \in [DOMAIN Crawlers -> MOutcomes] : MCrawlUrl(i, outs, fail)
    \/ \E i \in DOMAIN futures, fail \in StoreFails : MYield(i, fail)
    \/ MTimeout
    \/ MReturn
    \/ MInterruptFilter
    \/ MInterrupt
    \/ MShutdown
    \/ \E u \in GoodUrls : MarkQueued(u)
    \/ Tick

SpecM == InitM /\ [][NextM]_vars

InitR ==
    /\ collection = {} /\ url_tracking = EmptyTracking /\ clock = 0
    /\ CIdle /\ MInit /\ YIdle /\ PIdle /\ FIdle
    /\ r_title \in Docs /\ r_text \in Docs /\ r_out = "pending"

NextR == RCheck

SpecR == InitR /\ [][NextR]_vars

\* ProxyManager(proxy_file_path) as constructed
InitP ==
    /\ collection = {} /\ url_tracking = EmptyTracking /\ clock = 0
    /\ CIdle /\ MInit /\ YIdle /\ RIdle /\ FIdle
    /\ proxy_list = ProxyFile /\ current_index = -1 /\ failed_proxies = {}
    /\ p_last = NoCall

NextP ==
    \/ \E up \in SUBSET Proxies, free \in FreeProxyOutcomes : GetNextProxy(up, free)
    \/ \E proxy \in Proxies : MarkProxyFailed(proxy)

SpecP == InitP /\ [][NextP]_vars

\* the crawler methods, with the proxy manager as constructed
InitF ==
    /\ collection = {} /\ url_tracking = EmptyTracking /\ clock = 0
    /\ CIdle /\ MInit /\ YIdle /\ RIdle /\ FIdle
    /\ proxy_list = ProxyFile /\ current_index = -1 /\ failed_proxies = {}
    /\ p_last = NoCall

NextF ==
    \/ \E variant \in FetchVariants, u \in GoodUrls : FStart(variant, u)
    \/ \E resp \in StaticResponses : SRequest(resp)
    \/ \E out \in JsOutcomes, close_raises \in BOOLEAN,
          up \in SUBSET Proxies, free \in FreeProxyOutcomes :
          JAttempt(out, close_raises, up, free)
    \/ FReturn

SpecF == InitF /\ [][NextF]_vars

\* the pool threads of one crawl_urls call on empty collections
InitT ==
    /\ collection = {} /\ url_tracking = EmptyTracking /\ clock = 0
    /\ CIdle /\ MInit /\ RIdle /\ PIdle /\ FIdle
    /\ TIdle /\ BIdle /\ VIdle /\ QIdle /\ AIdle

NextT ==
    \/ \E batch \in Batches : TSubmit(batch)
    \/ \E i \in DOMAIN t_tasks : TBegin(i)
    \/ \E i \in DOMAIN t_tasks, out \in MOutcomes, fail \in BOOLEAN :
          TAttemptEnds(i, out, fail)

SpecT == InitT /\ [][NextT]_vars

\* a browser pool as constructed, its calling threads and one cleanup()
InitB ==
    /\ collection = {} /\ url_tracking = EmptyTracking /\ clock = 0
    /\ CIdle /\ MInit /\ RIdle /\ PIdle /\ FIdle
    /\ TIdle /\ VIdle /\ QIdle /\ AIdle
    /\ BConstructed

NextB ==
    \/ \E w \in Workers : BGetCall(w)
    \/ \E w \in Workers : BGetReturn(w)
    \/ \E w \in Workers : BReturn(w)
    \/ BCleanupStart
    \/ BCleanupTest
    \/ BCleanupGet

\* the steps inside the pool are taken when they can be, and a thread that
\* holds a browser returns it; threads are free to call get_browser or not
BFair ==
    /\ WF_vars(BCleanupTest)
    /\ WF_vars(BCleanupGet)
    /\ \A w \in Workers : WF_vars(BGetReturn(w)) /\ WF_vars(BReturn(w))

SpecB == InitB /\ [][NextB]_vars /\ BFair

\* the validator on one document
InitV ==
    /\ collection = {} /\ url_tracking = EmptyTracking /\ clock = 0
    /\ CIdle /\ MInit /\ RIdle /\ PIdle /\ FIdle
    /\ TIdle /\ BIdle /\ QIdle /\ AIdle
    /\ v_doc \in VDocs /\ v_check = "pending" /\ v_prep = "pending"

NextV == VSanitize \/ VPrepare

SpecV == InitV /\ [][NextV]_vars

\* two runs of process_unprocessed_content on what the crawlers have stored
InitQ ==
    /\ collection \in SUBSET {SeedDoc(u) : u \in GoodUrls}
    /\ url_tracking = EmptyTracking /\ clock = 0
    /\ CIdle /\ MInit /\ RIdle /\ PIdle /\ FIdle
    /\ TIdle /\ BIdle /\ VIdle /\ AIdle
    /\ q_samedb \in BOOLEAN
    /\ processed_content = [u \in GoodUrls |-> 0]
    /\ q_run = [r \in Runs |-> NoRun]

NextQ ==
    \/ \E r \in Runs : QStart(r)
    \/ \E r \in Runs : QCheck(r)
    \/ \E r \in Runs, ok \in BOOLEAN : QProcess(r, ok)

SpecQ == InitQ /\ [][NextQ]_vars

\* threads calling add_url on an empty scraped_urls
InitA ==
    /\ collection = {} /\ url_tracking = EmptyTracking /\ clock = 0
    /\ CIdle /\ MInit /\ RIdle /\ PIdle /\ FIdle
    /\ TIdle /\ BIdle /\ VIdle /\ QIdle
    /\ AIdle

NextA ==
    \/ \E c \in Callers, u \in GoodUrls : AAddUrl(c, u)
    \/ \E c \in Callers : AInsert(c)
    \/ \E c \in Callers : AReturn(c)

SpecA == InitA /\ [][NextA]_vars

(***************************************************************************)
(* Properties                                                              *)
(***************************************************************************)
DocsFor(u) == {d \in collection : d.url = u}

\* C1: for a valid URL with nothing stored yet, when the first crawler's
\* result passes the length and relevance checks (and MongoDB is up),
\* crawl_url stores exactly one document for the URL, with status success
\* and the first crawler's method, and calls no later crawler.
C1_Claim ==
    (c_first = FreeCrawlers[1] /\ ~c_dbfail /\ c_sc.pre = NoDoc)
        => /\ c_calls = <<FreeCrawlers[1]>>
           /\ c_pc = "returned" /\ c_ret = "result"
           /\ Cardinality(DocsFor(c_url)) = 1
           /\ \A d \in DocsFor(c_url) :
                 d.status = "success" /\ d.method = FreeCrawlers[1]

\* C2: crawlers are tried in the configured order, free ones before Apify;
\* the first crawler whose result is accepted is the last one invoked, and
\* the stored document carries its method.
AllCrawlersC == FreeCrawlers \o <<"apify">>
C2_Claim ==
    /\ c_calls = SubSeq(AllCrawlersC, 1, Len(c_calls))
    /\ (c_first # "none" /\ ~c_dbfail)
          => /\ c_calls[Len(c_calls)] = c_first
             /\ c_pc = "returned"
             /\ \E d \in DocsFor(c_url) : d.method = c_first

\* C3: when crawl_urls returns, every submitted future has been taken off
\* the list and counted once: successful_crawls + failed_crawls equals the
\* number of URLs submitted.
C3_Claim ==
    (m_pc = "returned" /\ m_exc = "none")
        => /\ m_list = {}
           /\ successful_crawls + failed_crawls = Len(futures)

\* C4: raw_content holds at most one document per URL, and after a URL has
\* been stored (again) its document carries the fields of the latest store.
LastStoreOf(u) ==
    LET I == {i \in DOMAIN m_stores : m_stores[i].url = u} IN
    m_stores[CHOOSE i \in I : \A j \in I : j <= i]
C4_Theorem ==
    \A u \in AllUrls :
        /\ Cardinality(DocsFor(u)) <= 1
        /\ (\E i \in DOMAIN m_stores : m_stores[i].url = u)
              => /\ Cardinality(DocsFor(u)) = 1
                 /\ \A d \in DocsFor(u) :
                       /\ d.title = LastStoreOf(u).title
                       /\ d.len = LastStoreOf(u).len
                       /\ d.crawl_time = LastStoreOf(u).crawl_time
                       /\ d.method = LastStoreOf(u).method
\* the same URL has been stored twice, with different content
C4_Witness ==
    /\ Len(m_stores) = 2
    /\ m_stores[1].url = m_stores[2].url
    /\ m_stores[1].method # m_stores[2].method
    /\ m_stores[1].crawl_time # m_stores[2].crawl_time

\* C5: when every crawler has failed or been rejected (and MongoDB is up),
\* crawl_url leaves a failure record for the URL and returns None; it does
\* not raise.
C5_Claim ==
    (c_pc = "returned" /\ Len(c_calls) = Len(AllCrawlersC)
     /\ c_first = "none" /\ ~c_dbfail)
        => /\ c_ret = "none"
           /\ \E d \in DocsFor(c_url) : d.status = "failed"

\* C6: when an accepted result cannot be stored, crawl_url ends there with
\* an error for the URL; it does not go on to the next crawler.
C6_Claim ==
    (c_last.accepted /\ ~c_last.stored)
        => c_pc = "returned" /\ c_ret = "raise"

\* C7: when the ledger has a last successful crawl of a URL less than
\* MinInterval ago, should_crawl answers "skip" together with the stored
\* document.
C7_Claim ==
    \A u \in GoodUrls :
        RecentlyCrawled(url_tracking, u, clock)
            => LET r == should_crawl(url_tracking, collection, u, clock, "none")
               IN ~r.crawl /\ r.doc # NoDoc

\* C8: when the lookup fails, the timestamp cannot be used or the remote
\* probe fails, should_crawl answers "crawl" with no document.
C8_Theorem ==
    (c_sc.called /\ (c_sc.err # "none" \/ (c_sc.probed /\ c_sc.probe = "fail")))
        => c_sc.crawl /\ c_sc.doc = NoDoc
\* _check_last_modified failed on a stored document whose interval has
\* elapsed
C8_Witness ==
    /\ c_sc.called /\ c_sc.pre # NoDoc
    /\ c_sc.probed /\ c_sc.probe = "fail"
    /\ c_sc.crawl

\* C9: the ledger's last_crawl_date of a URL never decreases.
C9_Claim ==
    [][\A u \in GoodUrls :
          (url_tracking[u] # NoEntry /\ url_tracking[u].last_crawl_date # NoTime)
             => url_tracking'[u].last_crawl_date >= url_tracking[u].last_crawl_date]_vars

\* C10: a crawler's result is turned down for its length exactly when the
\* text has fewer than MinContentLen characters; a shorter one is never
\* accepted or stored.
C10_Claim ==
    c_last.out.kind = "result"
        => /\ c_last.out.len < MinContentLen => ~c_last.accepted /\ ~c_last.stored
           /\ c_last.out.len >= MinContentLen => c_last.lenok

\* C11: when is_content_relevant_to_title turns down a free crawler's
\* result (title and text present, text long enough), crawl_url does not
\* accept or store it, leaves raw_content as it was, and goes on to the next
\* crawler in order; the crawler just tried had not been invoked before for
\* this URL.
C11_Theorem ==
    [][(c_pc = "free" /\ c_calls' # c_calls
        /\ c_last'.lenok /\ c_last'.out.title = "irr")
          => /\ ~c_last'.accepted /\ ~c_last'.stored
             /\ collection' = collection
             /\ \A i \in DOMAIN c_calls : c_calls[i] # c_last'.key
             /\ IF c_idx < Len(FreeCrawlers)
                THEN c_pc' = "free" /\ c_idx' = c_idx + 1
                ELSE c_pc' = "apify"]_vars
\* the first crawler's result was turned down by the filter and the second
\* crawler is next
C11_Witness ==
    /\ c_pc = "free" /\ c_idx = 2
    /\ c_last.key = FreeCrawlers[1]
    /\ c_last.lenok /\ c_last.out.title = "irr" /\ ~c_last.accepted

\* C12: a result with enough text and no title is accepted without the
\* relevance filter, whichever crawler produced it.
C12_Claim ==
    (c_last.out.kind = "result" /\ c_last.out.len > MinContentLen
     /\ c_last.out.title = "none")
        => c_last.accepted

\* C14: for a URL without scheme or host crawl_url returns None at once:
\* no crawler is invoked and raw_content and url_tracking are unchanged.
C14_Theorem ==
    [][(c_pc = "idle" /\ c_pc' # "idle"
        /\ (c_url'.scheme = "" \/ c_url'.netloc = ""))
          => /\ c_pc' = "returned" /\ c_ret' = "none"
             /\ c_calls' = <<>>
             /\ ~c_sc'.called
             /\ collection' = collection
             /\ url_tracking' = url_tracking]_vars
\* crawl_url has returned None for the URL without scheme
C14_Witness ==
    /\ c_pc = "returned" /\ c_url = NoSchemeUrl
    /\ c_ret = "none" /\ c_calls = <<>>

\* C13: for non-empty title and text, is_content_relevant_to_title is
\* False when they share no vocabulary term, and otherwise True exactly
\* when the cosine similarity of their TF-IDF rows is at least 0.2.
SpecThreshold == [num |-> 2, den |-> 10]
C13_Claim ==
    r_out # "pending"
        => (r_out = "True"
              <=> (/\ SharedTerms(r_title, r_text) # {}
                   /\ CosineAtLeast(TfIdf(r_title, r_title, r_text),
                                    TfIdf(r_text, r_title, r_text),
                                    SpecThreshold)))

\* the first proxy after position idx, wrapping around, that is not failed
NextNotFailed(list, idx, failed) ==
    LET n == Len(list)
        Cand == {k \in 1..n : list[((idx + k) % n) + 1] \notin failed}
    IN IF n = 0 \/ Cand = {} THEN "None"
       ELSE list[((idx + Min(Cand)) % n) + 1]

\* C15: get_next_proxy returns the next proxy after the previous position,
\* wrapping around, that is not in failed_proxies, when that proxy passes
\* the probe; with p1 failed and p2, p3 in order it never returns p1.
C15_Theorem ==
    [][(p_last'.op = "next" /\ p_vars' # p_vars)
          => LET nxt == NextNotFailed(proxy_list, current_index, failed_proxies)
             IN (nxt # "None" /\ nxt \in p_last'.up)
                   => /\ p_last'.ret = nxt
                      /\ proxy_list'[current_index' + 1] = nxt
                      /\ proxy_list' = proxy_list]_vars
\* with p1 failed, the call after p3 wrapped around, passed p1 and
\* returned p2
C15_Witness ==
    /\ proxy_list = ProxyFile /\ failed_proxies = {"p1"}
    /\ p_last.op = "next" /\ p_last.from = 2
    /\ p_last.ret = "p2" /\ current_index = 1

\* C16: get_next_proxy never returns a proxy that was in failed_proxies
\* when it was called.
C16_Claim ==
    (p_last.op = "next" /\ p_last.ret # "None") => ~p_last.was_failed

C20_Claim ==
    (f_variant = "_static_crawl" /\ f_pc = "returned")
        => /\ f_requests <= 3
           /\ f_last.status \in TransientStatuses => f_requests = 3

\* C17: after _store_result has written a result for a URL, the URL's
\* document has the fields of that result only: a field the earlier
\* document had and the result does not have is gone.
C17_Claim ==
    \A u \in GoodUrls :
        (\E i \in DOMAIN m_stores : m_stores[i].url = u)
            => \A d \in DocsFor(u) :
                  /\ d.processing_status = "absent"
                  /\ d.status = "absent"

\* C18: when crawl_urls ends on an interrupt, wherever it arrived, it is
\* the KeyboardInterrupt that reaches the caller, and no submitted task is
\* still running or waiting.
C18_Claim ==
    (m_pc = "returned" /\ m_exc # "none")
        => /\ m_exc = "KeyboardInterrupt"
           /\ \A i \in DOMAIN futures : futures[i].state = "done"

C22_Theorem ==
    [][\A i \in DOMAIN futures :
          (i \in m_list /\ i \notin m_list'
           /\ successful_crawls' = successful_crawls + 1)
             => LET u == futures[i].url IN
                /\ \E d \in collection' : d.url = u
                /\ url_tracking'[u] # NoEntry
                /\ url_tracking'[u].success
                /\ ~should_crawl(url_tracking', collection', u, clock', "none").crawl]_vars
\* a result of the Apify crawler has been stored for U1 and the ledger
\* records the success
C22_Witness ==
    /\ successful_crawls = 1
    /\ Len(m_stores) = 1 /\ m_stores[1].url = U1
    /\ m_stores[1].method = "apify"
    /\ url_tracking[U1] # NoEntry /\ url_tracking[U1].success

\* C23: during crawl_urls no two crawler attempts for the same URL are in
\* progress at the same time, also when the URL occurs twice in the batch.
C23_Claim ==
    \A i \in DOMAIN t_tasks, j \in DOMAIN t_tasks :
        (i # j /\ t_tasks[i].url = t_tasks[j].url)
            => ~(t_tasks[i].state = "attempt" /\ t_tasks[j].state = "attempt")

\* C24: no browser-pool operation blocks for ever: a cleanup() that has
\* started ends, also with get_browser and return_browser called by other
\* threads meanwhile, and a thread waiting in get_browser gets a browser
\* once the queue has one.
C24_Claim ==
    /\ (b_cpc \in {"test", "get"}) ~> (b_cpc = "done")
    /\ \A w \in Workers :
          (b_worker[w] = "waiting" /\ b_avail > 0) ~> (b_worker[w] = "has")

\* C25: for every document, what sanitize_data returns passes
\* validate_schema without errors, and prepare_for_mongodb does not raise on
\* the documents _store_result and _record_crawl_failure build.
C25_Claim ==
    /\ v_check # "pending" => v_check = "ok"
    /\ (v_prep # "pending" /\ v_doc \in BuiltDocs) => v_prep = "returned"

C27_Theorem ==
    [][\A i \in DOMAIN futures :
          (/\ futures[i].state = "running"
           /\ i \in DOMAIN futures' /\ futures'[i].state = "done"
           /\ futures'[i].calls = Crawlers
           /\ futures'[i].result = NoResult
           /\ DocsFor(futures[i].url) # {})
             => LET u == futures[i].url IN
                /\ collection' = collection
                /\ (url_tracking[u] # NoEntry /\ url_tracking'[u] # NoEntry)
                      => /\ url_tracking'[u].last_crawl_date = url_tracking[u].last_crawl_date
                         /\ url_tracking'[u].last_crawl_method = url_tracking[u].last_crawl_method]_vars
\* a failure has been recorded for U1 after its successful crawl, and the
\* stored document is still there
C27_Witness ==
    /\ url_tracking[U1] # NoEntry
    /\ ~url_tracking[U1].success
    /\ url_tracking[U1].last_attempt_date > 0
    /\ url_tracking[U1].last_crawl_date = 0
    /\ SeedDoc(U1) \in collection

\* C28: once crawl_urls has returned and its pool threads have finished,
\* every URL whose result was stored in the batch (both writes done) has
\* success = True in url_tracking.
C28_Claim ==
    (/\ m_pc = "returned" /\ m_exc = "none"
     /\ \A i \in DOMAIN futures : futures[i].state = "done"
     /\ successful_crawls = Len(m_stores))
        => \A i \in DOMAIN m_stores :
              /\ url_tracking[m_stores[i].url] # NoEntry
              /\ url_tracking[m_stores[i].url].success

\* C29: processed_content never holds two documents for one URL, also when
\* two runs of process_unprocessed_content work on the same unprocessed
\* documents.
C29_Claim ==
    \A u \in GoodUrls : processed_content[u] <= 1

====
